---- MODULE Spec2Model ----
(***************************************************************************)
(* Model of tools/api-runner.js of dev-toolkit: the Koa Excel-parsing      *)
(* service (POST /api/parseExcel) and the Express forwarding proxy         *)
(* (POST /api/runFlow).                                                    *)
(*                                                                         *)
(* JavaScript values are records [t, n, s]: t is the type tag, n the       *)
(* number (numbers only), s the string as a sequence of one-character      *)
(* strings (strings only).  Header labels are written in pinyin because    *)
(* the module is ASCII: CaiGouJia = purchase price, ShuiDian = tax rate,   *)
(* ChanPinBianMa = product code, ChanPinMingCheng = product name,          *)
(* BuHanShuiCaiGouJia = purchase price excluding tax, BeiZhu = a label     *)
(* the mapping table does not know.                                        *)
(***************************************************************************)
EXTENDS Integers, Sequences, FiniteSets, TLC

VARIABLES
    \* ---- Excel parsing service -------------------------------------
    strictConvert,  \* configuration: convertValue raises on an unparseable number
    uploads,        \* temporary files that exist in ./uploads
    nextUpload,     \* name the upload middleware gives the next temporary file
    pc,             \* "idle" | "uploaded" | "handled"
    file,           \* ctx.request.files.excelFile
    tempFilePath,   \* the handler's local of that name (0 is null)
    exit,           \* the return the handler left through
    ctxStatus,      \* ctx.status
    ctxBody,        \* ctx.body
    headers,        \* sheet.data[0]
    rows,           \* sheet.data.slice(1)
    mappedData,     \* retained records, each with the rowIndex it was mapped from
    \* ---- forwarding proxy ------------------------------------------
    reqs,           \* the /api/runFlow requests, by request id
    upstream        \* requests written to the target server

parseVars == <<strictConvert, uploads, nextUpload, pc, file, tempFilePath, exit,
               ctxStatus, ctxBody, headers, rows, mappedData>>
proxyVars == <<reqs, upstream>>
vars == <<strictConvert, uploads, nextUpload, pc, file, tempFilePath, exit,
          ctxStatus, ctxBody, headers, rows, mappedData, reqs, upstream>>

-----------------------------------------------------------------------------
(* Bounds *)
MaxCols == 2          \* columns of a sheet
MaxRows == 12         \* data rows of a long sheet
MaxMixedRows == 3     \* data rows of a sheet that mixes row kinds
MaxUploads == 1       \* uploads handled in one run
MaxReqs == 2          \* /api/runFlow requests in one run

-----------------------------------------------------------------------------
(* JavaScript values *)
Undefined == [t |-> "undefined", n |-> 0, s |-> <<>>]
Null == [t |-> "null", n |-> 0, s |-> <<>>]
Num(n) == [t |-> "number", n |-> n, s |-> <<>>]
Str(s) == [t |-> "string", n |-> 0, s |-> s]

Digits == <<"0", "1", "2", "3", "4", "5", "6", "7", "8", "9">>
IsDigit(c) == \E d \in 1..10 : Digits[d] = c
DigitVal(c) == (CHOOSE d \in 1..10 : Digits[d] = c) - 1

RECURSIVE TrimStart(_)
TrimStart(s) == IF s # <<>> /\ Head(s) = " " THEN TrimStart(Tail(s)) ELSE s

RECURSIVE TrimEnd(_)
TrimEnd(s) ==
    IF s # <<>> /\ s[Len(s)] = " " THEN TrimEnd(SubSeq(s, 1, Len(s) - 1)) ELSE s

Trim(s) == TrimEnd(TrimStart(s))

RECURSIVE ParseDigits(_, _)
ParseDigits(s, acc) ==
    IF s = <<>> THEN acc ELSE ParseDigits(Tail(s), 10 * acc + DigitVal(Head(s)))

-----------------------------------------------------------------------------
(* The mapping configuration, ./schemas/materials-mapping *)
fieldMapping ==
    [ChanPinBianMa      |-> "productCode",
     ChanPinMingCheng   |-> "productName",
     CaiGouJia          |-> "purchasePrice",
     ShuiDian           |-> "taxRate",
     BuHanShuiCaiGouJia |-> "purchasePriceExcludingTax"]

NumericFields == {"purchasePrice", "taxRate", "purchasePriceExcludingTax"}

Thrown == [t |-> "thrown", n |-> 0, s |-> <<>>]

\* materialsConfig.convertValue(rawValue, dbField); Thrown when it raises.
convertValue(rawValue, dbField) ==
    IF rawValue.t \in {"undefined", "null"} THEN Null
    ELSE IF dbField \in NumericFields THEN
        IF rawValue.t = "number" THEN rawValue
        ELSE LET str == Trim(rawValue.s) IN
             IF str # <<>> /\ \A i \in 1..Len(str) : IsDigit(str[i])
             THEN Num(ParseDigits(str, 0))
             ELSE IF str # <<>> /\ strictConvert THEN Thrown
             ELSE Null
    ELSE IF rawValue.t = "string" THEN Str(Trim(rawValue.s))
    ELSE rawValue

-----------------------------------------------------------------------------
(* Property lookup fieldMapping[header] on a plain object: an own entry,   *)
(* else a member inherited from Object.prototype, else undefined.  The     *)
(* inherited member is a function; used as a property key it is its        *)
(* string form.                                                            *)
ObjectPrototypeMembers == {"constructor", "toString"}
InheritedKey(member) ==
    IF member = "constructor" THEN "function Object() { [native code] }"
    ELSE "function toString() { [native code] }"
NoField == ""

Lookup(header) ==
    IF header \in DOMAIN fieldMapping THEN fieldMapping[header]
    ELSE IF header \in ObjectPrototypeMembers THEN InheritedKey(header)
    ELSE NoField

Keys == {fieldMapping[h] : h \in DOMAIN fieldMapping}
            \cup {InheritedKey(m) : m \in ObjectPrototypeMembers}

\* const rowData = {}: no key is set
EmptyRowData == [k \in Keys |-> Undefined]

\* forEachHeader with a column that does not replace a field an earlier column set
RECURSIVE forEachHeaderKeepFirst(_, _, _, _)
forEachHeaderKeepFirst(hdrs, row, colIndex, rowData) ==
    IF colIndex > Len(hdrs) THEN [threw |-> FALSE, rowData |-> rowData]
    ELSE LET dbField == Lookup(hdrs[colIndex]) IN
         IF dbField # NoField
         THEN LET rawValue == IF colIndex <= Len(row) THEN row[colIndex] ELSE Undefined
                  value == convertValue(rawValue, dbField)
              IN  IF value = Thrown
                  THEN [threw |-> TRUE, rowData |-> rowData]
                  ELSE forEachHeaderKeepFirst(hdrs, row, colIndex + 1,
                           IF rowData[dbField] = Undefined
                           THEN [rowData EXCEPT ![dbField] = value]
                           ELSE rowData)
         ELSE forEachHeaderKeepFirst(hdrs, row, colIndex + 1, rowData)

\* headers.forEach((header, colIndex) => ...), from column colIndex on.
\* The result is [threw, rowData]; threw when convertValue raised.
RECURSIVE forEachHeader(_, _, _, _)
forEachHeader(hdrs, row, colIndex, rowData) ==
    IF colIndex > Len(hdrs) THEN [threw |-> FALSE, rowData |-> rowData]
    ELSE LET dbField == Lookup(hdrs[colIndex]) IN
         IF dbField # NoField
         THEN LET rawValue == IF colIndex <= Len(row) THEN row[colIndex] ELSE Undefined
                  value == convertValue(rawValue, dbField)
              IN  IF value = Thrown
                  THEN [threw |-> TRUE, rowData |-> rowData]
                  ELSE forEachHeader(hdrs, row, colIndex + 1,
                                     [rowData EXCEPT ![dbField] = value])
         ELSE forEachHeader(hdrs, row, colIndex + 1, rowData)

\* the callback of rows.slice(0, 10).map
mapRow(hdrs, row) == forEachHeader(hdrs, row, 1, EmptyRowData)

\* retained without the comparisons with 0
retainedNonNull(item) == item.purchasePrice # Null /\ item.taxRate # Null

\* the callback of .filter
retained(item) ==
    /\ item.purchasePrice # Null /\ item.purchasePrice # Num(0)
    /\ item.taxRate # Null /\ item.taxRate # Num(0)

SliceEnd == 10
\* slice with no end: every row
sliceAll(rs) == rs

\* rows.slice(0, 10)
slice(rs) == SubSeq(rs, 1, IF Len(rs) < SliceEnd THEN Len(rs) ELSE SliceEnd)

\* rows.slice(0, 10).map(...): one [rowIndex, item] per row
mapped(hdrs, rs) ==
    [i \in 1..Len(slice(rs)) |->
        [rowIndex |-> i, item |-> mapRow(hdrs, slice(rs)[i]).rowData]]

mapThrew(hdrs, rs) ==
    \E i \in 1..Len(slice(rs)) : mapRow(hdrs, slice(rs)[i]).threw

RECURSIVE filter(_)
filter(ms) ==
    IF ms = <<>> THEN <<>>
    ELSE IF retained(Head(ms).item) THEN <<Head(ms)>> \o filter(Tail(ms))
    ELSE filter(Tail(ms))

-----------------------------------------------------------------------------
(* Uploaded files and what node-xlsx parses out of them *)
Lower(c) ==
    CASE c = "X" -> "x" [] c = "L" -> "l" [] c = "S" -> "s"
      [] c = "C" -> "c" [] c = "V" -> "v" [] OTHER -> c

EndsWith(name, suffix) ==
    /\ Len(name) >= Len(suffix)
    /\ \A i \in 1..Len(suffix) :
           Lower(name[Len(name) - Len(suffix) + i]) = suffix[i]

\* /\.(xlsx?|csv)$/i.test(file.originalFilename)
extensionTest(name) ==
    \/ EndsWith(name, <<".", "x", "l", "s", "x">>)
    \/ EndsWith(name, <<".", "x", "l", "s">>)
    \/ EndsWith(name, <<".", "c", "s", "v">>)

allowedTypes ==
    {"application/vnd.ms-excel",
     "application/vnd.openxmlformats-officedocument.spreadsheetml.sheet",
     "application/octet-stream"}

isValidExcel(f) == f.mimetype \in allowedTypes \/ extensionTest(f.originalFilename)

maxSize == 10 * 1024 * 1024

Filenames ==
    {<<"a", ".", "X", "L", "S">>, <<"a", ".", "t", "x", "t">>, <<"x", "l", "s", "x">>}
Mimetypes == {"application/vnd.ms-excel", "text/plain"}
Sizes == {maxSize, maxSize + 1}

NoFile == [present |-> FALSE]
UploadedFile(name, mimetype, size, filepath) ==
    [present |-> TRUE, originalFilename |-> name, mimetype |-> mimetype,
     size |-> size, filepath |-> filepath]

\* sequences over S of length 0..n
RECURSIVE SeqsUpTo(_, _)
SeqsUpTo(S, n) ==
    IF n = 0 THEN {<<>>}
    ELSE LET shorter == SeqsUpTo(S, n - 1) IN
         shorter \cup {Append(q, x) : q \in shorter, x \in S}

Labels == {"CaiGouJia", "ShuiDian", "ChanPinBianMa", "BeiZhu", "constructor"}
\* a cell the sheet does not have is a row shorter than the header row
Cells == {Num(0), Num(5), Str(<<"0">>), Str(<<" ", "7">>), Str(<<"a">>)}

HeaderRows == SeqsUpTo(Labels, MaxCols)
DataRows(width) == SeqsUpTo(Cells, width)

PriceTaxHeader == <<"CaiGouJia", "ShuiDian">>
GoodRowA == <<Num(5), Str(<<" ", "7">>)>>
GoodRowB == <<Str(<<" ", "7">>), Num(5)>>
ZeroRow == <<Str(<<"0">>), Num(5)>>
BadRow == <<Num(5), Str(<<"a">>)>>

\* sheet.data: the header row followed by the data rows
OneRowSheets ==
    {<<h, r>> : h \in HeaderRows,
                r \in DataRows(MaxCols)}
MixedSheets ==
    {<<PriceTaxHeader>> \o rs :
        rs \in SeqsUpTo({GoodRowA, GoodRowB, ZeroRow, BadRow}, MaxMixedRows)}
\* n good rows, alternately GoodRowA and GoodRowB, but for a ZeroRow at z
LongSheets ==
    {<<PriceTaxHeader>> \o
        [i \in 1..n |-> IF i = z THEN ZeroRow
                        ELSE IF i % 2 = 1 THEN GoodRowA ELSE GoodRowB] :
        n \in 0..MaxRows, z \in 0..MaxRows}

\* what xlsx.parse(fs.readFileSync(file.filepath)) gives: it raises, or a
\* workbook of no sheet, or a workbook whose first sheet has the data
Corrupt == [threw |-> TRUE, workbook |-> <<>>]
Parsed(workbook) == [threw |-> FALSE, workbook |-> workbook]
ParseResults ==
    {Corrupt, Parsed(<<>>), Parsed(<<[data |-> <<>>]>>)}
        \cup {Parsed(<<[data |-> d]>>) : d \in OneRowSheets \cup MixedSheets \cup LongSheets}

-----------------------------------------------------------------------------
(* The Koa context of one request *)
NoBody == [type |-> "unset", value |-> <<>>]
ErrorBody(message) ==
    [type |-> "object", value |-> [success |-> FALSE, message |-> message]]
ArrayBody(items) == [type |-> "array", value |-> items]

DefaultStatus == 404   \* the status of a context nothing was assigned to
ImplicitStatus == 200  \* the status an assignment to ctx.body gives such a context

\* mappedData as it is assigned to ctx.body: the records without the row index
Items(ms) == [i \in 1..Len(ms) |-> ms[i].item]

\* if (tempFilePath && fs.existsSync(tempFilePath)) fs.unlinkSync(tempFilePath)
cleanup(path, existing) == IF path # 0 /\ path \in existing THEN existing \ {path} ELSE existing

ParseInit ==
    /\ strictConvert \in BOOLEAN
    /\ uploads = {}
    /\ nextUpload = 1
    /\ pc = "idle"
    /\ file = NoFile
    /\ tempFilePath = 0
    /\ exit = "none"
    /\ ctxStatus = DefaultStatus
    /\ ctxBody = NoBody
    /\ headers = <<>>
    /\ rows = <<>>
    /\ mappedData = <<>>

\* koaBody({multipart: true, formidable: {uploadDir: './uploads', ...}}): a
\* multipart request arrives; a file field excelFile, if the request has one,
\* is written to a new temporary file
Upload ==
    /\ pc = "idle"
    /\ nextUpload <= MaxUploads
    /\ pc' = "uploaded"
    /\ \/ /\ file' = NoFile
          /\ UNCHANGED <<uploads, nextUpload>>
       \/ \E name \in Filenames, mimetype \in Mimetypes, size \in Sizes :
             /\ file' = UploadedFile(name, mimetype, size, nextUpload)
             /\ uploads' = uploads \cup {nextUpload}
             /\ nextUpload' = nextUpload + 1
    /\ UNCHANGED <<strictConvert, tempFilePath, exit, ctxStatus, ctxBody,
                   headers, rows, mappedData>>
    /\ UNCHANGED proxyVars

\* the handler's four early returns and the catch block, as the values the
\* handler leaves behind
Leave(how, status, body, path, existing, hdrs, rs, ms) ==
    /\ exit' = how
    /\ ctxStatus' = status
    /\ ctxBody' = body
    /\ tempFilePath' = path
    /\ uploads' = existing
    /\ headers' = hdrs
    /\ rows' = rs
    /\ mappedData' = ms

\* router.post('/api/parseExcel', async (ctx) => {...})
ParseExcel ==
    /\ pc = "uploaded"
    /\ pc' = "handled"
    /\ IF ~file.present
       THEN Leave("missingFile", 400, ErrorBody("upload a file"), 0, uploads,
                  <<>>, <<>>, <<>>)
       ELSE IF ~isValidExcel(file)
       THEN Leave("invalidType", 400, ErrorBody("not an Excel file"), 0, uploads,
                  <<>>, <<>>, <<>>)
       ELSE IF file.size > maxSize
       THEN Leave("tooLarge", 400, ErrorBody("file too large"), 0, uploads,
                  <<>>, <<>>, <<>>)
       ELSE \E result \in ParseResults :
            LET path == file.filepath
                sheet == result.workbook[1]
                hdrs == sheet.data[1]
                rs == Tail(sheet.data)
            IN  IF result.threw
                THEN Leave("exception", 500, ErrorBody("cannot parse"), path,
                           cleanup(path, uploads), <<>>, <<>>, <<>>)
                ELSE IF result.workbook = <<>> \/ Len(sheet.data) = 0
                THEN Leave("emptySheet", ImplicitStatus, ErrorBody("empty"), path,
                           uploads, <<>>, <<>>, <<>>)
                ELSE IF mapThrew(hdrs, rs)
                THEN Leave("exception", 500, ErrorBody("cannot convert"), path,
                           cleanup(path, uploads), hdrs, rs, <<>>)
                ELSE Leave("success", ImplicitStatus,
                           ArrayBody(Items(filter(mapped(hdrs, rs)))), path,
                           cleanup(path, uploads), hdrs, rs,
                           filter(mapped(hdrs, rs)))
    /\ UNCHANGED <<strictConvert, nextUpload, file>>
    /\ UNCHANGED proxyVars

\* the response is sent and the context is dropped; the next request gets a
\* new one
Respond ==
    /\ pc = "handled"
    /\ pc' = "idle"
    /\ file' = NoFile
    /\ tempFilePath' = 0
    /\ exit' = "none"
    /\ ctxStatus' = DefaultStatus
    /\ ctxBody' = NoBody
    /\ headers' = <<>>
    /\ rows' = <<>>
    /\ mappedData' = <<>>
    /\ UNCHANGED <<strictConvert, uploads, nextUpload>>
    /\ UNCHANGED proxyVars

NextParse == Upload \/ ParseExcel \/ Respond

-----------------------------------------------------------------------------
(* The forwarding proxy.  A JSON value of a request body is [t, v]; a key   *)
(* the body does not have holds Absent.                                     *)
Absent == [t |-> "undefined", v |-> ""]
JStr(v) == [t |-> "string", v |-> v]
JNum(v) == [t |-> "number", v |-> v]

\* !x is false
Truthy(x) ==
    \/ x.t = "string" /\ x.v # ""
    \/ x.t = "number" /\ x.v # "0"

BodyKeys == {"dataPath", "hostPre", "host", "data", "flowId"}

\* the local file system: the files fs.existsSync finds, and their content
Directories == {"./tools"}
ExistingPaths == {"./data.js", "./tools"}
fileContent == [p \in {"./data.js"} |-> "module.exports = sampleData;"]

ValidUrls == {"http://localhost:7098"}

DataPaths == {Absent, JStr(""), JStr("./data.js"), JStr("./missing.js"),
              JStr("./tools"), JNum("1")}
HostPres == {Absent, JStr("http://localhost:7098"), JStr("localhost")}
Hosts == {Absent, JStr("localhost")}
\* the fields of the body besides the three: none, or a data and a flowId
Extras == {[data |-> Absent, flowId |-> Absent],
           [data |-> JStr("injected"), flowId |-> JStr("f1")]}

Bodies ==
    {[dataPath |-> dp, hostPre |-> hp, host |-> h, data |-> x.data, flowId |-> x.flowId] :
        dp \in DataPaths, hp \in HostPres, h \in Hosts, x \in Extras}

\* const { dataPath, hostPre, host, ...otherData } = req.body
otherData(body) ==
    [k \in BodyKeys |-> IF k \in {"dataPath", "hostPre", "host"} THEN Absent ELSE body[k]]

\* one property of an object literal: a later property replaces an earlier one
Property(obj, key, value) == [obj EXCEPT ![key] = value]

\* forwardData with the spread last: { dataPath, host, data: jsData, ...otherData }
forwardDataSpreadLast(body, jsData) ==
    [k \in BodyKeys |->
        IF otherData(body)[k] # Absent THEN otherData(body)[k]
        ELSE IF k = "dataPath" THEN body.dataPath
        ELSE IF k = "host" THEN body.host
        ELSE IF k = "data" THEN JStr(jsData)
        ELSE Absent]

\* { ...otherData, dataPath, host, data: jsData }
forwardData(body, jsData) ==
    Property(Property(Property(otherData(body),
        "dataPath", body.dataPath), "host", body.host), "data", JStr(jsData))

NoMessage == [sent |-> FALSE]
Message(url, hostHeader, data) ==
    [sent |-> TRUE, url |-> url, host |-> hostHeader, data |-> data]

NoRequest ==
    [pc |-> "none", body |-> [k \in BodyKeys |-> Absent], status |-> 0,
     error |-> "", message |-> NoMessage]

ProxyInit ==
    /\ reqs = [id \in 1..MaxReqs |-> NoRequest]
    /\ upstream = {}

\* res.status(status).json({error, ...}) before anything was forwarded
Reply(id, body, status, error) ==
    /\ reqs' = [reqs EXCEPT ![id] =
            [pc |-> "done", body |-> body, status |-> status, error |-> error,
             message |-> NoMessage]]
    /\ UNCHANGED upstream

\* app.post('/api/runFlow', async (req, res) => {...}) up to the await of
\* makeRequest, or to the response when it does not get that far
RunFlow(id) ==
    /\ reqs[id].pc = "none"
    /\ \A earlier \in 1..(id - 1) : reqs[earlier].pc # "none"
    /\ \E body \in Bodies :
        IF ~Truthy(body.dataPath) THEN Reply(id, body, 400, "Missing dataPath parameter")
        ELSE IF ~Truthy(body.hostPre) THEN Reply(id, body, 400, "Missing hostPre parameter")
        ELSE IF ~Truthy(body.host) THEN Reply(id, body, 400, "Missing host parameter")
        ELSE IF body.dataPath.t # "string"        \* path.resolve raises
        THEN Reply(id, body, 500, "Internal server error")
        ELSE IF body.dataPath.v \notin ExistingPaths
        THEN Reply(id, body, 400, "File not found")
        ELSE IF body.dataPath.v \in Directories  \* fs.readFileSync raises
        THEN Reply(id, body, 500, "Internal server error")
        ELSE IF body.hostPre.v \notin ValidUrls   \* new URL(url) raises
        THEN Reply(id, body, 500, "Internal server error")
        ELSE LET jsData == fileContent[body.dataPath.v]
                 message == Message(body.hostPre.v \o "/api/open/runFlow",
                                    body.host.v, forwardData(body, jsData))
             IN  /\ reqs' = [reqs EXCEPT ![id] =
                        [pc |-> "awaiting", body |-> body, status |-> 0,
                         error |-> "", message |-> message]]
                 /\ upstream' = upstream \cup {[id |-> id, message |-> message]}
    /\ UNCHANGED parseVars

\* res.on('end'): makeRequest resolves and the handler relays the response
TargetResponds(id) ==
    /\ reqs[id].pc = "awaiting"
    /\ reqs' = [reqs EXCEPT ![id].pc = "done", ![id].status = 200]
    /\ UNCHANGED upstream
    /\ UNCHANGED parseVars

\* req.on('error'): makeRequest rejects and the handler's catch answers
TargetFails(id) ==
    /\ reqs[id].pc = "awaiting"
    /\ reqs' = [reqs EXCEPT ![id].pc = "done", ![id].status = 500,
                             ![id].error = "Internal server error"]
    /\ UNCHANGED upstream
    /\ UNCHANGED parseVars

NextProxy ==
    \E id \in 1..MaxReqs : RunFlow(id) \/ TargetResponds(id) \/ TargetFails(id)

-----------------------------------------------------------------------------
Init == ParseInit /\ ProxyInit

SpecParse == Init /\ [][NextParse]_vars
SpecProxy == Init /\ [][NextProxy]_vars

-----------------------------------------------------------------------------
(* Properties of POST /api/parseExcel *)
Handled == pc = "handled"
Succeeded == pc = "handled" /\ exit = "success"
FirstTen == 1..(IF Len(rows) < 10 THEN Len(rows) ELSE 10)
Record(i) == mapRow(headers, rows[i]).rowData
InOutput(i) == \E j \in 1..Len(mappedData) : mappedData[j].rowIndex = i
HasValue(v) == v # Undefined /\ v # Null /\ v # Num(0)
ColumnsOf(field) ==
    {c \in 1..Len(headers) :
        headers[c] \in DOMAIN fieldMapping /\ fieldMapping[headers[c]] = field}
CellAt(row, c) == IF c <= Len(row) THEN row[c] ELSE Undefined
Min(S) == CHOOSE x \in S : \A y \in S : x <= y
Max(S) == CHOOSE x \in S : \A y \in S : x >= y

\* C1: a record mapped from one of the first 10 rows is in the output if and
\* only if its purchasePrice and its taxRate are both present, non-null and
\* not 0; a record that lacks either field is discarded.
C1_RetainedIffBothHaveValue ==
    Succeeded =>
        \A i \in FirstTen :
            InOutput(i) <=>
                (HasValue(Record(i).purchasePrice) /\ HasValue(Record(i).taxRate))

\* C2: when the handler has finished, the temporary file of the upload no
\* longer exists, whichever way the handler was left.
C2_TempFileDeleted ==
    (Handled /\ file.present) => file.filepath \notin uploads

\* C3: with an empty header row the output is the empty sequence, whatever
\* data rows follow.
C3_EmptyHeaderEmptyOutput ==
    (Succeeded /\ headers = <<>>) => mappedData = <<>>

\* C4: a row on which convertValue raises or gives null for a required field
\* is the only row dropped: the request still succeeds and every other row of
\* the first 10 that passes the filter is in the output.
C4_RowFailureDropsOnlyThatRow ==
    (Handled /\ rows # <<>>) =>
        /\ exit = "success"
        /\ \A i \in FirstTen :
               (~mapRow(headers, rows[i]).threw /\ retained(Record(i)))
                   => InOutput(i)

\* C5: the output holds records of the first 10 data rows only, each the
\* record mapped from its row, in row order; its length is at most
\* min(10, number of rows), and exactly 10 when 10 or more rows all pass.
C5_FirstTenInOrder ==
    Succeeded =>
        /\ Len(mappedData) <= 10
        /\ Len(mappedData) <= Len(rows)
        /\ \A j \in 1..Len(mappedData) :
               /\ mappedData[j].rowIndex \in 1..10
               /\ mappedData[j].rowIndex <= Len(rows)
               /\ mappedData[j].item = Record(mappedData[j].rowIndex)
        /\ \A j, k \in 1..Len(mappedData) :
               j < k => mappedData[j].rowIndex < mappedData[k].rowIndex
        /\ ctxBody = ArrayBody(Items(mappedData))
        /\ (Len(rows) >= 10 /\ \A i \in 1..Len(rows) : retained(Record(i)))
               => Len(mappedData) = 10

C5_Witness ==
    /\ Succeeded
    /\ Len(rows) = 12
    /\ \A i \in 1..Len(rows) : retained(Record(i))
    /\ Len(mappedData) = 10
    /\ mappedData[1].item # mappedData[2].item

\* C6: a failed request answers a structured error (success false, a
\* message) with status 400 for no file, invalid type, too large and empty
\* sheet, 500 for an exception; no 2xx status goes with success = false.
C6_FailureStatus ==
    Handled =>
        /\ exit # "success" =>
               /\ ctxBody.type = "object"
               /\ ctxBody.value.success = FALSE
               /\ ctxBody.value.message # ""
               /\ ctxStatus = (IF exit = "exception" THEN 500 ELSE 400)
        /\ (ctxStatus >= 200 /\ ctxStatus < 300) => ctxBody.type = "array"

\* C7 as stated: of several columns mapped to one field, the first gives
\* the field's value.
C7_FirstOccurrenceWins ==
    Succeeded =>
        \A j \in 1..Len(mappedData) : \A field \in DOMAIN EmptyRowData :
            ColumnsOf(field) # {} =>
                mappedData[j].item[field] =
                    convertValue(CellAt(rows[mappedData[j].rowIndex],
                                        Min(ColumnsOf(field))), field)

\* C7 as amended: of several columns mapped to one field, the last gives
\* the field's value.
C7_LastOccurrenceWins ==
    Succeeded =>
        \A j \in 1..Len(mappedData) : \A field \in DOMAIN EmptyRowData :
            ColumnsOf(field) # {} =>
                mappedData[j].item[field] =
                    convertValue(CellAt(rows[mappedData[j].rowIndex],
                                        Max(ColumnsOf(field))), field)

C7_Witness ==
    /\ Succeeded
    /\ Len(mappedData) = 1
    /\ Cardinality(ColumnsOf("purchasePrice")) = 2
    /\ mappedData[1].item.purchasePrice = Num(7)
    /\ CellAt(rows[1], 1) = Num(5)

\* C8: every key of an output record is the field the mapping table gives
\* for a label of the header row; a label without an entry gives no key.
C8_KeysComeFromMappedLabels ==
    Succeeded =>
        \A j \in 1..Len(mappedData) : \A key \in DOMAIN mappedData[j].item :
            mappedData[j].item[key] # Undefined => ColumnsOf(key) # {}

\* C9: no output record has a purchasePrice or taxRate that is null or 0,
\* and a row whose purchase price or tax rate converts to null or 0 is not
\* in the output.
C9_NoNullOrZero ==
    Succeeded =>
        /\ \A j \in 1..Len(mappedData) :
               /\ mappedData[j].item.purchasePrice \notin {Null, Num(0)}
               /\ mappedData[j].item.taxRate \notin {Null, Num(0)}
        /\ \A i \in FirstTen :
               (\/ Record(i).purchasePrice \in {Null, Num(0)}
                \/ Record(i).taxRate \in {Null, Num(0)})
                   => ~InOutput(i)

C9_Witness ==
    /\ Succeeded
    /\ headers = PriceTaxHeader
    /\ Len(rows) = 2
    /\ rows[1] = ZeroRow
    /\ Record(1).purchasePrice = Num(0)
    /\ Len(mappedData) = 1
    /\ mappedData[1].rowIndex = 2

-----------------------------------------------------------------------------
(* Properties of POST /api/runFlow *)
ChecksFail(body) ==
    \/ ~Truthy(body.dataPath)
    \/ ~Truthy(body.hostPre)
    \/ ~Truthy(body.host)
    \/ body.dataPath.t = "string" /\ body.dataPath.v \notin ExistingPaths

\* C10: a request goes upstream only when dataPath, hostPre and host are
\* present and the file exists; a failed check answers 400 and sends
\* nothing; the forwarded data is the file's content and the forwarded
\* dataPath and host are the checked ones, whatever else the body holds.
C10_ForwardOnlyValidated ==
    /\ \A m \in upstream : reqs[m.id].message = m.message
    /\ \A id \in 1..MaxReqs :
        LET r == reqs[id] IN
        /\ r.message.sent =>
               /\ [id |-> id, message |-> r.message] \in upstream
               /\ Truthy(r.body.dataPath) /\ Truthy(r.body.hostPre) /\ Truthy(r.body.host)
               /\ r.body.dataPath.t = "string"
               /\ r.body.dataPath.v \in ExistingPaths
               /\ r.message.data["data"] = JStr(fileContent[r.body.dataPath.v])
               /\ r.message.data["dataPath"] = r.body.dataPath
               /\ r.message.data["host"] = r.body.host
               /\ r.message.host = r.body.host.v
        /\ (r.pc # "none" /\ ChecksFail(r.body)) =>
               /\ r.status = 400
               /\ ~r.message.sent
               /\ \A m \in upstream : m.id # id

C10_Witness ==
    \E id \in 1..MaxReqs :
        /\ reqs[id].pc = "awaiting"
        /\ reqs[id].body.data = JStr("injected")
        /\ reqs[id].message.sent
        /\ reqs[id].message.data["data"] = JStr(fileContent["./data.js"])
        /\ reqs[id].message.data["flowId"] = JStr("f1")
====
